---- MODULE Spec2Model ----
(***************************************************************************)
(* Model of golnk's extra-data decoder (extradata.go): DataBlock reads a   *)
(* sequence of length-prefixed data blocks from an io.Reader until it      *)
(* meets a size value below 4, and blockSignature names a block's type.    *)
(*                                                                         *)
(* Numbers.  A uint32 does not fit TLC's integers, and a stream position   *)
(* can pass 2^32, so a number is a record [hi, lo] standing for            *)
(* hi * 2^16 + lo with lo in 0..2^16-1.  A uint32 has hi < 2^16 and its    *)
(* arithmetic wraps modulo 2^32 (Minus32).                                 *)
(*                                                                         *)
(* Bytes.  A byte string ([]byte, or the content of the reader) is kept    *)
(* run-length encoded: a sequence of runs [b, n], n > 0 copies of the byte *)
(* b, no two adjacent runs with the same byte.  The form is canonical, so  *)
(* equal byte strings are equal values, and a payload of 2^32-3 bytes is   *)
(* one run.                                                                *)
(***************************************************************************)
EXTENDS Integers, Sequences, FiniteSets, TLC

\* r, off: the reader and its position; pc: where DataBlock stands; size, db,
\* extra, err: its locals and results.  These are the call that is running;
\* parked holds the calls that are not (every local of each).
VARIABLES r, off, pc, size, db, extra, err, parked

vars == <<r, off, pc, size, db, extra, err, parked>>

----------------------------------------------------------------------------
(* Numbers *)

Limb == 256 * 256

Num(n) == [hi |-> n \div Limb, lo |-> n % Limb]

Word(h, l) == [hi |-> h, lo |-> l]

Zero == Num(0)

Plus(a, x) ==
    LET s == a.lo + x.lo
    IN  [hi |-> a.hi + x.hi + (s \div Limb), lo |-> s % Limb]

LessEq(a, x) == a.hi < x.hi \/ (a.hi = x.hi /\ a.lo <= x.lo)

Less(a, x) == ~LessEq(x, a)

\* a - x for x <= a
Minus(a, x) ==
    LET d == a.lo - x.lo
    IN  [hi |-> a.hi - x.hi - (IF d < 0 THEN 1 ELSE 0), lo |-> d % Limb]

\* uint32 subtraction: the difference modulo 2^32
Minus32(a, x) ==
    LET d == a.lo - x.lo
    IN  [hi |-> (a.hi - x.hi - (IF d < 0 THEN 1 ELSE 0)) % Limb, lo |-> d % Limb]

\* uint32 addition: the sum modulo 2^32
Plus32(a, x) ==
    LET s == Plus(a, x)
    IN  [hi |-> s.hi % Limb, lo |-> s.lo]

----------------------------------------------------------------------------
(* Byte strings *)

Run(b, n) == IF n = Zero THEN <<>> ELSE <<[b |-> b, n |-> n]>>

Cat(s, t) ==
    IF s = <<>> THEN t
    ELSE IF t = <<>> THEN s
    ELSE IF s[Len(s)].b = t[1].b
         THEN SubSeq(s, 1, Len(s) - 1)
              \o <<[b |-> t[1].b, n |-> Plus(s[Len(s)].n, t[1].n)]>>
              \o Tail(t)
         ELSE s \o t

RECURSIVE Bytes(_)
\* the byte string of an explicit sequence of bytes
Bytes(q) ==
    IF q = <<>> THEN <<>>
    ELSE Cat(Run(q[1], Num(1)), Bytes(Tail(q)))

RECURSIVE Length(_)
Length(s) == IF s = <<>> THEN Zero ELSE Plus(s[1].n, Length(Tail(s)))

RECURSIVE Drop(_, _)
\* s without its first k bytes
Drop(s, k) ==
    IF k = Zero \/ s = <<>> THEN s
    ELSE IF LessEq(s[1].n, k) THEN Drop(Tail(s), Minus(k, s[1].n))
    ELSE <<[b |-> s[1].b, n |-> Minus(s[1].n, k)]>> \o Tail(s)

RECURSIVE Take(_, _)
\* the first k bytes of s
Take(s, k) ==
    IF k = Zero \/ s = <<>> THEN <<>>
    ELSE IF LessEq(s[1].n, k) THEN <<s[1]>> \o Take(Tail(s), Minus(k, s[1].n))
    ELSE <<[b |-> s[1].b, n |-> k]>>

RECURSIVE Explicit(_)
\* the explicit sequence of bytes of a short byte string
Explicit(s) ==
    IF s = <<>> THEN <<>>
    ELSE <<s[1].b>> \o Explicit(Drop(s, Num(1)))

----------------------------------------------------------------------------
(* encoding/binary and io *)

\* binary.LittleEndian.Uint32 of four bytes
LittleEndianUint32(q) == Word(q[4] * 256 + q[3], q[2] * 256 + q[1])

\* binary.LittleEndian.PutUint32
PutUint32(v) == <<v.lo % 256, v.lo \div 256, v.hi % 256, v.hi \div 256>>

Nil == "<nil>"

\* ReadFull reporting io.EOF at the end of the stream even for a read of
\* no bytes, as a plain r.Read may
ReadFullEOFOnEmpty(stream, o, n) ==
    LET rest  == Drop(stream, o)
        avail == Length(rest)
    IN  IF LessEq(n, avail) /\ avail # Zero
        THEN [err |-> Nil, data |-> Take(rest, n), off |-> Plus(o, n)]
        ELSE [err  |-> IF avail = Zero THEN "EOF" ELSE "unexpected EOF",
              data |-> <<>>,
              off  |-> Plus(o, avail)]

\* io.ReadFull of n bytes from the reader over stream, positioned at o:
\* all n bytes, or what is left with io.EOF (nothing was left) or
\* io.ErrUnexpectedEOF
ReadFull(stream, o, n) ==
    LET rest  == Drop(stream, o)
        avail == Length(rest)
    IN  IF LessEq(n, avail)
        THEN [err |-> Nil, data |-> Take(rest, n), off |-> Plus(o, n)]
        ELSE [err  |-> IF avail = Zero THEN "EOF" ELSE "unexpected EOF",
              data |-> <<>>,
              off  |-> Plus(o, avail)]

\* binary.Read(r, binary.LittleEndian, &v) for a uint32 v
ReadUint32(stream, o) ==
    LET rd == ReadFull(stream, o, Num(4))
    IN  [err |-> rd.err,
         val |-> IF rd.err = Nil THEN LittleEndianUint32(Explicit(rd.data)) ELSE Zero,
         off |-> rd.off]

----------------------------------------------------------------------------
(* blockSignature *)

HexDigit == <<"0", "1", "2", "3", "4", "5", "6", "7",
              "8", "9", "a", "b", "c", "d", "e", "f">>

RECURSIVE EncodeToString(_)
\* hex.EncodeToString
EncodeToString(q) ==
    IF q = <<>> THEN ""
    ELSE HexDigit[(q[1] \div 16) + 1] \o HexDigit[(q[1] % 16) + 1]
         \o EncodeToString(Tail(q))

\* uint32Byte: the four bytes of a uint32
uint32Byte(v) == PutUint32(v)

signatureMap ==
    (Word(40960, 2)  :> "ConsoleDataBlock") @@
    (Word(40960, 4)  :> "ConsoleFEDataBlock") @@
    (Word(40960, 6)  :> "DarwinDataBlock") @@
    (Word(40960, 1)  :> "EnvironmentVariableDataBlock") @@
    (Word(40960, 7)  :> "IconEnvironmentDataBlock") @@
    (Word(40960, 9)  :> "PropertyStoreDataBlock") @@
    (Word(40960, 8)  :> "ShimDataBlock") @@
    (Word(40960, 5)  :> "SpecialFolderDataBlock") @@
    (Word(40960, 3)  :> "TrackerDataBlock") @@
    (Word(40960, 12) :> "VistaAndAboveIDListDataBlock") @@
    (Word(40960, 11) :> "KnownFolderDataBlock")

\* blockSignature with a fallback that drops the signature
blockSignatureNoHex(sig) ==
    IF sig \in DOMAIN signatureMap
    THEN signatureMap[sig]
    ELSE "Signature Not Found"

blockSignature(sig) ==
    IF sig \in DOMAIN signatureMap
    THEN signatureMap[sig]
    ELSE "Signature Not Found - " \o EncodeToString(uint32Byte(sig))

----------------------------------------------------------------------------
(* DataBlock *)

\* var db ExtraDataBlock: the zero value
ExtraDataBlock ==
    [Size |-> Zero, Signature |-> Zero, Type |-> "", Data |-> <<>>, Object |-> Nil]

\* the named result extra ExtraDataSection: the zero value
ExtraDataSection == [Blocks |-> <<>>, TerminalBlock |-> Zero]

\* PayloadLen as the comment above ExtraDataBlock has it: size-4 more bytes
PayloadLenSizeMinus4(d) == Minus32(d.Size, Num(4))

\* line 68: the length of make([]byte, db.Size-8), a uint32 difference.
\* int is taken to have 64 bits and memory to suffice, so that make and
\* binary.Read allocate a slice of any uint32 length.
PayloadLen(d) == Minus32(d.Size, Num(8))

\* ReadSize without the break: the terminal value is stored and the loop
\* goes on to read a signature
ReadSizeNoBreak ==
    /\ pc = "size"
    /\ LET rd == ReadUint32(r, off)
       IN  /\ off' = rd.off
           /\ IF rd.err # Nil
              THEN /\ err' = "golnk.readDataBlock: read size - " \o rd.err
                   /\ pc' = "return"
                   /\ size' = Zero
                   /\ UNCHANGED <<db, extra>>
              ELSE /\ size' = rd.val
                   /\ extra' = IF Less(rd.val, Num(4))
                               THEN [extra EXCEPT !.TerminalBlock = rd.val]
                               ELSE extra
                   /\ db' = [db EXCEPT !.Size = rd.val]
                   /\ err' = Nil
                   /\ pc' = "signature"
    /\ UNCHANGED <<r, parked>>

\* ReadSize going round the loop again after a failed read instead of
\* returning
ReadSizeRetry ==
    /\ pc = "size"
    /\ LET rd == ReadUint32(r, off)
       IN  /\ off' = rd.off
           /\ IF rd.err # Nil
              THEN /\ err' = "golnk.readDataBlock: read size - " \o rd.err
                   /\ pc' = "size"
                   /\ size' = Zero
                   /\ UNCHANGED <<db, extra>>
              ELSE /\ size' = rd.val
                   /\ IF Less(rd.val, Num(4))
                      THEN /\ extra' = [extra EXCEPT !.TerminalBlock = rd.val]
                           /\ err' = Nil
                           /\ pc' = "return"
                           /\ UNCHANGED db
                      ELSE /\ db' = [db EXCEPT !.Size = rd.val]
                           /\ err' = Nil
                           /\ pc' = "signature"
                           /\ UNCHANGED extra
    /\ UNCHANGED <<r, parked>>

\* lines 45-56: read the size (a fresh variable in each iteration, zero when
\* the read fails); return on a read error, leave the loop on a size below 4
ReadSize ==
    /\ pc = "size"
    /\ LET rd == ReadUint32(r, off)
       IN  /\ off' = rd.off
           /\ IF rd.err # Nil
              THEN /\ err' = "golnk.readDataBlock: read size - " \o rd.err
                   /\ pc' = "return"
                   /\ size' = Zero
                   /\ UNCHANGED <<db, extra>>
              ELSE /\ size' = rd.val
                   /\ IF Less(rd.val, Num(4))
                      THEN /\ extra' = [extra EXCEPT !.TerminalBlock = rd.val]
                           /\ err' = Nil
                           /\ pc' = "return"
                           /\ UNCHANGED db
                      ELSE /\ db' = [db EXCEPT !.Size = rd.val]
                           /\ err' = Nil
                           /\ pc' = "signature"
                           /\ UNCHANGED extra
    /\ UNCHANGED <<r, parked>>

\* ReadSignature reporting a short read under the name of the size read
ReadSignatureSizeMessage ==
    /\ pc = "signature"
    /\ LET rd == ReadUint32(r, off)
       IN  /\ off' = rd.off
           /\ IF rd.err # Nil
              THEN /\ err' = "golnk.readDataBlock: read size - " \o rd.err
                   /\ pc' = "return"
                   /\ UNCHANGED db
              ELSE /\ db' = [db EXCEPT !.Signature = rd.val,
                                       !.Type = blockSignature(rd.val)]
                   /\ err' = Nil
                   /\ pc' = "data"
    /\ UNCHANGED <<r, size, extra, parked>>

\* ReadSignature returning an error for a signature outside the table
ReadSignatureRejectUnknown ==
    /\ pc = "signature"
    /\ LET rd == ReadUint32(r, off)
       IN  /\ off' = rd.off
           /\ IF rd.err # Nil
              THEN /\ err' = "golnk.readDataBlock: read signature - " \o rd.err
                   /\ pc' = "return"
                   /\ UNCHANGED db
              ELSE IF rd.val \notin DOMAIN signatureMap
              THEN /\ err' = "golnk.readDataBlock: unknown signature"
                   /\ pc' = "return"
                   /\ UNCHANGED db
              ELSE /\ db' = [db EXCEPT !.Signature = rd.val,
                                       !.Type = blockSignature(rd.val)]
                   /\ err' = Nil
                   /\ pc' = "data"
    /\ UNCHANGED <<r, size, extra, parked>>

\* lines 59-64: read the signature and name the block's type
ReadSignature ==
    /\ pc = "signature"
    /\ LET rd == ReadUint32(r, off)
       IN  /\ off' = rd.off
           /\ IF rd.err # Nil
              THEN /\ err' = "golnk.readDataBlock: read signature - " \o rd.err
                   /\ pc' = "return"
                   /\ UNCHANGED db
              ELSE /\ db' = [db EXCEPT !.Signature = rd.val,
                                       !.Type = blockSignature(rd.val)]
                   /\ err' = Nil
                   /\ pc' = "data"
    /\ UNCHANGED <<r, size, extra, parked>>

\* ReadData appending db before db.Data is set: the block keeps the payload
\* of the block before it
ReadDataStale ==
    /\ pc = "data"
    /\ LET rd == ReadFull(r, off, PayloadLen(db))
       IN  /\ off' = rd.off
           /\ IF rd.err # Nil
              THEN /\ err' = "golnk.readDataBlock: read data - " \o rd.err
                   /\ pc' = "return"
                   /\ UNCHANGED <<db, extra>>
              ELSE /\ db' = [db EXCEPT !.Data = rd.data]
                   /\ extra' = [extra EXCEPT !.Blocks = Append(@, db)]
                   /\ err' = Nil
                   /\ pc' = "size"
    /\ UNCHANGED <<r, size, parked>>

\* ReadData appending the block before it looks at the read's error
ReadDataAppendFirst ==
    /\ pc = "data"
    /\ LET rd == ReadFull(r, off, PayloadLen(db))
       IN  /\ off' = rd.off
           /\ db' = [db EXCEPT !.Data = rd.data]
           /\ extra' = [extra EXCEPT
                          !.Blocks = Append(@, [db EXCEPT !.Data = rd.data])]
           /\ IF rd.err # Nil
              THEN /\ err' = "golnk.readDataBlock: read data - " \o rd.err
                   /\ pc' = "return"
              ELSE /\ err' = Nil
                   /\ pc' = "size"
    /\ UNCHANGED <<r, size, parked>>

\* ReadData with Blocks holding references to the one scratch variable db
\* (append of &db): every entry shows what db holds now
ReadDataAliased ==
    /\ pc = "data"
    /\ LET rd == ReadFull(r, off, PayloadLen(db))
       IN  /\ off' = rd.off
           /\ IF rd.err # Nil
              THEN /\ err' = "golnk.readDataBlock: read data - " \o rd.err
                   /\ pc' = "return"
                   /\ UNCHANGED <<db, extra>>
              ELSE /\ db' = [db EXCEPT !.Data = rd.data]
                   /\ extra' = [extra EXCEPT
                                  !.Blocks = [i \in 1..(Len(@) + 1) |->
                                                 [db EXCEPT !.Data = rd.data]]]
                   /\ err' = Nil
                   /\ pc' = "size"
    /\ UNCHANGED <<r, size, parked>>

\* lines 68-75: make the buffer of db.Size-8 bytes, read it, append the block
ReadData ==
    /\ pc = "data"
    /\ LET rd == ReadFull(r, off, PayloadLen(db))
       IN  /\ off' = rd.off
           /\ IF rd.err # Nil
              THEN /\ err' = "golnk.readDataBlock: read data - " \o rd.err
                   /\ pc' = "return"
                   /\ UNCHANGED <<db, extra>>
              ELSE /\ db' = [db EXCEPT !.Data = rd.data]
                   /\ extra' = [extra EXCEPT
                                  !.Blocks = Append(@, [db EXCEPT !.Data = rd.data])]
                   /\ err' = Nil
                   /\ pc' = "size"
    /\ UNCHANGED <<r, size, parked>>

----------------------------------------------------------------------------
(* The streams DataBlock is run on *)

MaxItems == 4

MaxRecords == 2

MaxTrail == 1

SeqsUpTo(S, n) == UNION {[1..k -> S] : k \in 0..n}

RECURSIVE Flatten(_)
Flatten(ss) == IF ss = <<>> THEN <<>> ELSE Cat(ss[1], Flatten(Tail(ss)))

\* a size, a signature or a sentinel as it lies in the stream
LE(v) == Bytes(PutUint32(v))

EnvironmentVariable == Word(40960, 1)

DeadBeef == Word(57005, 48879)

\* 2^32-3 bytes: what a block of size 5 asks for after its signature
Hole == Run(255, Word(65535, 65533))

Items ==
    {LE(Num(0)), LE(Num(5)), LE(Num(8)), LE(Num(9)), LE(Num(16)),
     LE(EnvironmentVariable), LE(DeadBeef), Bytes(<<7>>), Hole}

\* any bytes at all: a few items, one after the other
FreeStreams == {Flatten(ss) : ss \in SeqsUpTo(Items, MaxItems)}

Block(len, sig) == Cat(LE(Num(8 + len)), Cat(LE(sig), Run(7, Num(len))))

\* a block with a payload of 2^31 bytes
LargeBlock == Cat(LE(Word(32768, 8)), Cat(LE(EnvironmentVariable), Run(7, Word(32768, 0))))

Blocks ==
    {Block(len, sig) : len \in 0..1, sig \in {EnvironmentVariable, DeadBeef}}
    \cup {LargeBlock}

\* blocks, a terminal value and what the file holds after it
FramedStreams ==
    {Cat(Flatten(bs), Cat(LE(Num(v)), Run(9, Num(t)))) :
        bs \in SeqsUpTo(Blocks, MaxRecords), v \in 0..3, t \in 0..MaxTrail}

\* one block of each signature of the table, and of some outside it
Signatures ==
    DOMAIN signatureMap \cup {Word(40960, 10), Word(40960, 0), DeadBeef, Zero}

SignatureStreams == {Cat(Block(0, sig), LE(Zero)) : sig \in Signatures}

Streams == FreeStreams \cup FramedStreams \cup SignatureStreams

Init ==
    /\ r \in Streams
    /\ off = Zero
    /\ pc = "size"
    /\ size = Zero
    /\ db = ExtraDataBlock
    /\ extra = ExtraDataSection
    /\ err = Nil
    /\ parked = <<>>

Next == ReadSize \/ ReadSignature \/ ReadData

Spec == Init /\ [][Next]_vars

----------------------------------------------------------------------------
(* Several calls of DataBlock *)

\* how many calls run side by side
NumCalls == 2

\* Every call has its own reader and its own extra, err, db and size: they
\* are the parameter, the results and the locals of the function (lines
\* 40-45), and signatureMap is built inside blockSignature (line 82).  A
\* call is therefore the record of these, and of where it stands.
Call(stream) ==
    [r |-> stream, off |-> Zero, pc |-> "size", size |-> Zero,
     db |-> ExtraDataBlock, extra |-> ExtraDataSection, err |-> Nil]

Running ==
    [r |-> r, off |-> off, pc |-> pc, size |-> size,
     db |-> db, extra |-> extra, err |-> err]

\* the calls there are: the running one and the parked ones
Calls == {Running} \cup {parked[i] : i \in DOMAIN parked}

\* the scheduler treating db as one variable that all the calls share
SwitchSharedDb ==
    \E i \in DOMAIN parked :
        /\ r' = parked[i].r
        /\ off' = parked[i].off
        /\ pc' = parked[i].pc
        /\ size' = parked[i].size
        /\ db' = db
        /\ extra' = parked[i].extra
        /\ err' = parked[i].err
        /\ parked' = [parked EXCEPT ![i] = Running]

\* The scheduler takes the running call off the processor, with all that is
\* its own, and puts a parked one on.
Switch ==
    \E i \in DOMAIN parked :
        /\ r' = parked[i].r
        /\ off' = parked[i].off
        /\ pc' = parked[i].pc
        /\ size' = parked[i].size
        /\ db' = parked[i].db
        /\ extra' = parked[i].extra
        /\ err' = parked[i].err
        /\ parked' = [parked EXCEPT ![i] = Running]

\* streams of the calls: a terminal value alone, blocks and a terminal
\* value, blocks and no terminal value, a size of 5 and what follows it
ConcStreams ==
    {LE(Num(1)),
     Cat(Block(1, DeadBeef), LE(Zero)),
     Cat(Block(0, EnvironmentVariable), Cat(Block(1, DeadBeef), LE(Num(2)))),
     Cat(Block(0, EnvironmentVariable), Block(1, EnvironmentVariable)),
     Cat(LE(Num(5)), LE(DeadBeef))}

ConcInit ==
    /\ r \in ConcStreams
    /\ off = Zero
    /\ pc = "size"
    /\ size = Zero
    /\ db = ExtraDataBlock
    /\ extra = ExtraDataSection
    /\ err = Nil
    /\ parked \in [1..(NumCalls - 1) -> {Call(s) : s \in ConcStreams}]

ConcNext == ReadSize \/ ReadSignature \/ ReadData \/ Switch

ConcSpec == ConcInit /\ [][ConcNext]_vars

\* lines 43-76, one step of a call that runs alone, as a function of the call
Step(c) ==
    IF c.pc = "size"
    THEN LET rd == ReadUint32(c.r, c.off)
         IN  IF rd.err # Nil
             THEN [c EXCEPT !.off = rd.off, !.size = Zero, !.pc = "return",
                            !.err = "golnk.readDataBlock: read size - " \o rd.err]
             ELSE IF Less(rd.val, Num(4))
             THEN [c EXCEPT !.off = rd.off, !.size = rd.val, !.pc = "return",
                            !.extra.TerminalBlock = rd.val, !.err = Nil]
             ELSE [c EXCEPT !.off = rd.off, !.size = rd.val, !.pc = "signature",
                            !.db.Size = rd.val, !.err = Nil]
    ELSE IF c.pc = "signature"
    THEN LET rd == ReadUint32(c.r, c.off)
         IN  IF rd.err # Nil
             THEN [c EXCEPT !.off = rd.off, !.pc = "return",
                            !.err = "golnk.readDataBlock: read signature - " \o rd.err]
             ELSE [c EXCEPT !.off = rd.off, !.pc = "data", !.err = Nil,
                            !.db.Signature = rd.val,
                            !.db.Type = blockSignature(rd.val)]
    ELSE IF c.pc = "data"
    THEN LET rd == ReadFull(c.r, c.off, PayloadLen(c.db))
         IN  IF rd.err # Nil
             THEN [c EXCEPT !.off = rd.off, !.pc = "return",
                            !.err = "golnk.readDataBlock: read data - " \o rd.err]
             ELSE [c EXCEPT !.off = rd.off, !.pc = "size", !.err = Nil,
                            !.db.Data = rd.data,
                            !.extra.Blocks = Append(@, [c.db EXCEPT !.Data = rd.data])]
    ELSE c

RECURSIVE Return(_)
\* lines 40-78: what a call returns when it runs from c on with no other
Return(c) == IF c.pc = "return" THEN c ELSE Return(Step(c))

Alone(stream) == Return(Call(stream))

----------------------------------------------------------------------------
(* What the format description asks of a stream, for the properties below *)

\* the value of the four bytes at the head of rest
WordAt(rest) == LittleEndianUint32(Explicit(Take(rest, Num(4))))

RECURSIVE Framing(_, _)
\* section := record* terminator: the records at the head of rest, after
\* recs, and how the framing ends: at a terminal value, at a size of 4..7,
\* or where the bytes run out (in a size, a signature or a payload)
Framing(rest, recs) ==
    IF Less(Length(rest), Num(4))
    THEN [records |-> recs, end |-> "size", terminal |-> Zero]
    ELSE IF Less(WordAt(rest), Num(4))
    THEN [records |-> recs, end |-> "terminal", terminal |-> WordAt(rest)]
    ELSE IF Less(WordAt(rest), Num(8))
    THEN [records |-> recs, end |-> "malformed", terminal |-> Zero]
    ELSE IF Less(Length(rest), Num(8))
    THEN [records |-> recs, end |-> "signature", terminal |-> Zero]
    ELSE IF Less(Length(rest), WordAt(rest))
    THEN [records |-> recs, end |-> "payload", terminal |-> Zero]
    ELSE Framing(Drop(rest, WordAt(rest)),
                 Append(recs, [size      |-> WordAt(rest),
                               signature |-> WordAt(Drop(rest, Num(4))),
                               payload   |-> Take(Drop(rest, Num(8)),
                                                  Minus(WordAt(rest), Num(8)))]))

Framed == Framing(r, <<>>)

\* the block holds the size, signature and payload of the record
SameRecord(block, rec) ==
    /\ block.Size = rec.size
    /\ block.Signature = rec.signature
    /\ block.Data = rec.payload

ReadErrors(phase) ==
    {"golnk.readDataBlock: read " \o phase \o " - " \o e : e \in {"EOF", "unexpected EOF"}}

IOErrors == ReadErrors("size") \cup ReadErrors("signature") \cup ReadErrors("data")

RECURSIVE BlockBytes(_)
\* the blocks as they lay in the stream: stored size, signature, payload
BlockBytes(bs) ==
    IF bs = <<>> THEN <<>>
    ELSE Cat(LE(bs[1].Size), Cat(LE(bs[1].Signature), Cat(bs[1].Data, BlockBytes(Tail(bs)))))

----------------------------------------------------------------------------
(* C1 *)

\* C1: on a stream of N well-formed records followed by a terminal value
\* v < 4, DataBlock returns exactly the N records, in stream order, each with
\* the size, signature and payload of the stream, terminal value v, no error.
C1_WellFormedStreamDecoded ==
    (pc = "return" /\ Framed.end = "terminal") =>
        /\ err = Nil
        /\ extra.TerminalBlock = Framed.terminal
        /\ Len(extra.Blocks) = Len(Framed.records)
        /\ \A i \in 1..Len(Framed.records) :
               SameRecord(extra.Blocks[i], Framed.records[i])

C1_Witness ==
    /\ pc = "return"
    /\ Framed.end = "terminal"
    /\ Len(Framed.records) = 2
    /\ Framed.records[1].payload # <<>>
    /\ extra.TerminalBlock = Num(3)
    /\ Len(extra.Blocks) = 2

----------------------------------------------------------------------------
(* C2 *)

\* C2: whenever DataBlock has read a size value in 4..7 it has failed with a
\* malformed-record error, not with a short-read error.
\* No record is appended for such a size value.
C2_MalformedSizeRejected ==
    /\ (LessEq(Num(4), size) /\ Less(size, Num(8))) =>
           (pc = "return" /\ err \notin IOErrors \cup {Nil})
    /\ \A i \in 1..Len(extra.Blocks) : LessEq(Num(8), extra.Blocks[i].Size)

----------------------------------------------------------------------------
(* C3 *)

\* the bytes at the head of rest are neither a terminal value nor a whole
\* block: they run out in the size, the signature or the db.Size-8 bytes
CutShort(rest) ==
    \/ Less(Length(rest), Num(4))
    \/ /\ LessEq(Num(4), WordAt(rest))
       /\ Less(Length(rest), Plus(Num(8), Minus32(WordAt(rest), Num(8))))

\* C3: when DataBlock returns an error, the Section returned with it holds
\* exactly the blocks read in full before the failure, in stream order and
\* as they lie in the stream: they fill a prefix of the stream, the read
\* that failed lies after them, and what follows them is not a whole block.
C3_PartialSectionOnError ==
    (pc = "return" /\ err # Nil) =>
        LET read == BlockBytes(extra.Blocks)
        IN  /\ read = Take(r, Length(read))
            /\ \A i \in 1..Len(extra.Blocks) :
                   Length(extra.Blocks[i].Data) = Minus32(extra.Blocks[i].Size, Num(8))
            /\ LessEq(Length(read), off)
            /\ CutShort(Drop(r, Length(read)))

C3_Witness ==
    /\ pc = "return"
    /\ err \in ReadErrors("data")
    /\ Len(extra.Blocks) = 2
    /\ extra.Blocks[1].Data # <<>>

----------------------------------------------------------------------------
(* C4 *)

\* C4: on a stream that ends before the framing is complete DataBlock
\* returns a read error that names the phase in which the bytes ran out
\* (size, signature, or data for the payload), and the record cut short is
\* not in the result.
C4_ShortReadNamesPhase ==
    pc = "return" =>
        /\ Framed.end = "size" => err \in ReadErrors("size")
        /\ Framed.end = "signature" => err \in ReadErrors("signature")
        /\ Framed.end = "payload" => err \in ReadErrors("data")
        /\ Framed.end \in {"size", "signature", "payload"} =>
              /\ Len(extra.Blocks) = Len(Framed.records)
              /\ \A i \in 1..Len(Framed.records) :
                     SameRecord(extra.Blocks[i], Framed.records[i])

\* size = 16 with one of the eight payload bytes
C4_Witness ==
    /\ pc = "return"
    /\ Framed.end = "payload"
    /\ db.Size = Num(16)
    /\ Length(r) = Num(9)
    /\ err = "golnk.readDataBlock: read data - unexpected EOF"
    /\ extra.Blocks = <<>>

----------------------------------------------------------------------------
(* C5 *)

RECURSIVE SumOfSizes(_)
SumOfSizes(bs) ==
    IF bs = <<>> THEN Zero ELSE Plus(bs[1].Size, SumOfSizes(Tail(bs)))

\* C5: on success the cursor stands at (sum of the size fields of the
\* returned blocks) + 4, within the stream.
C5_ConsumesDeclaredSizes ==
    (pc = "return" /\ err = Nil) =>
        /\ off = Plus(SumOfSizes(extra.Blocks), Num(4))
        /\ LessEq(off, Length(r))

----------------------------------------------------------------------------
(* C6 *)

RECURSIVE EncodeBlocks(_)
\* per record: size = 8 + payload length as a little-endian uint32, the
\* signature, the payload
EncodeBlocks(bs) ==
    IF bs = <<>> THEN <<>>
    ELSE Cat(LE(Plus32(Num(8), Length(bs[1].Data))),
             Cat(LE(bs[1].Signature), Cat(bs[1].Data, EncodeBlocks(Tail(bs)))))

Encode(section) == Cat(EncodeBlocks(section.Blocks), LE(section.TerminalBlock))

----------------------------------------------------------------------------
(* C7 *)

\* the table of the format description: signature, kind
KindTable ==
    (Word(40960, 1)  :> "EnvironmentVariableDataBlock") @@
    (Word(40960, 2)  :> "ConsoleDataBlock") @@
    (Word(40960, 3)  :> "TrackerDataBlock") @@
    (Word(40960, 4)  :> "ConsoleFEDataBlock") @@
    (Word(40960, 5)  :> "SpecialFolderDataBlock") @@
    (Word(40960, 6)  :> "DarwinDataBlock") @@
    (Word(40960, 7)  :> "IconEnvironmentDataBlock") @@
    (Word(40960, 8)  :> "ShimDataBlock") @@
    (Word(40960, 9)  :> "PropertyStoreDataBlock") @@
    (Word(40960, 11) :> "KnownFolderDataBlock") @@
    (Word(40960, 12) :> "VistaAndAboveIDListDataBlock")

KnownKinds == {KindTable[s] : s \in DOMAIN KindTable}

\* the signatures blockSignature has been applied to in this call
Classified ==
    {extra.Blocks[i].Signature : i \in 1..Len(extra.Blocks)}
    \cup (IF pc = "data" THEN {db.Signature} ELSE {})

TypeOf(sig) ==
    IF pc = "data" /\ db.Signature = sig THEN db.Type
    ELSE (CHOOSE b \in {extra.Blocks[i] : i \in 1..Len(extra.Blocks)} :
              b.Signature = sig).Type

\* C7: every signature blockSignature was applied to got a kind: a table
\* signature its listed name, any other signature a kind that is no known
\* name, that carries the signature in hexadecimal, and that no other
\* signature gets.
C7_ClassifierTotal ==
    \A sig \in Classified :
        IF sig \in DOMAIN KindTable
        THEN TypeOf(sig) = KindTable[sig]
        ELSE /\ TypeOf(sig) \notin KnownKinds
             /\ TypeOf(sig) = "Signature Not Found - " \o EncodeToString(PutUint32(sig))
             /\ \A other \in (Signatures \cup Classified) \ {sig} :
                    blockSignature(other) # TypeOf(sig)

\* A000000A, the gap in the table
C7_Witness ==
    /\ pc = "return"
    /\ Len(extra.Blocks) = 1
    /\ extra.Blocks[1].Signature = Word(40960, 10)
    /\ extra.Blocks[1].Type = "Signature Not Found - 0a0000a0"

----------------------------------------------------------------------------
(* C8 *)

\* C8: a well-framed record whose signature is not in the table is appended
\* like any other, the records after it are read too, and DataBlock returns
\* no error when the terminal value follows.
C8_UnknownSignatureDecoded ==
    pc = "return" =>
        \A i \in 1..Len(Framed.records) :
            Framed.records[i].signature \notin DOMAIN KindTable =>
                /\ Len(extra.Blocks) >= Len(Framed.records)
                /\ SameRecord(extra.Blocks[i], Framed.records[i])
                /\ extra.Blocks[i].Type \notin KnownKinds
                /\ Framed.end = "terminal" => err = Nil

C8_Witness ==
    /\ pc = "return"
    /\ Framed.end = "terminal"
    /\ Len(Framed.records) = 2
    /\ Framed.records[1].signature = DeadBeef
    /\ Framed.records[2].signature = EnvironmentVariable
    /\ extra.Blocks[1].Type = "Signature Not Found - efbeadde"
    /\ err = Nil

----------------------------------------------------------------------------
(* C9 *)

\* C9: in every state each stored block has size >= 8, a payload of size - 8
\* bytes and the kind of its signature.
C9_StoredBlocksWellFormed ==
    \A i \in 1..Len(extra.Blocks) :
        /\ LessEq(Num(8), extra.Blocks[i].Size)
        /\ extra.Blocks[i].Size = Plus(Num(8), Length(extra.Blocks[i].Data))
        /\ extra.Blocks[i].Type = blockSignature(extra.Blocks[i].Signature)

----------------------------------------------------------------------------
(* C10 *)

\* C10: DataBlock returns without error exactly when the four bytes after
\* the blocks it read are a value below 4; that value is then the terminal
\* value and the last thing read.  The terminal value of a Section is always
\* in 0..3, no block starts with a value below 4, and nothing is read after
\* the return.
C10_SuccessOnlyByTerminal ==
    /\ Less(extra.TerminalBlock, Num(4))
    /\ \A i \in 1..Len(extra.Blocks) : LessEq(Num(4), extra.Blocks[i].Size)
    /\ pc = "return" =>
          LET read == Length(BlockBytes(extra.Blocks))
              rest == Drop(r, read)
          IN  /\ (err = Nil) <=>
                     (LessEq(Num(4), Length(rest)) /\ Less(WordAt(rest), Num(4)))
              /\ err = Nil =>
                     /\ extra.TerminalBlock = WordAt(rest)
                     /\ extra.TerminalBlock = size
                     /\ off = Plus(read, Num(4))
              /\ ~ENABLED Next

C10_Witness ==
    /\ pc = "return"
    /\ err = Nil
    /\ extra.TerminalBlock = Num(1)
    /\ Len(extra.Blocks) = 1
    /\ Less(off, Length(r))

----------------------------------------------------------------------------
(* C11 *)

\* C11: the payload length db.Size-8 is computed, and a payload read of that
\* length made, only with db.Size >= 8: DataBlock never stands before the
\* payload read with a size in 4..7, whose length would wrap modulo 2^32.
C11_NoWrappedPayloadLength ==
    pc = "data" =>
        /\ LessEq(Num(8), db.Size)
        /\ Plus(PayloadLen(db), Num(8)) = db.Size

----------------------------------------------------------------------------
(* C12 *)

\* C12: a block of size 8 is valid: its payload read of no bytes never
\* fails, also at the end of the stream, the block is appended with an empty
\* payload and DataBlock goes on to the next size.  08 00 00 00 01 00 00 A0
\* gives one block with an empty payload and the type
\* EnvironmentVariableDataBlock before the next size is read.
C12_EmptyPayloadBlock ==
    /\ \A i \in 1..Len(extra.Blocks) :
           extra.Blocks[i].Size = Num(8) => extra.Blocks[i].Data = <<>>
    /\ db.Size = Num(8) => err \notin ReadErrors("data")
    /\ (pc \in {"size", "return"} /\ db.Size = Num(8)
        /\ err \notin ReadErrors("signature")) =>
           /\ Len(extra.Blocks) > 0
           /\ extra.Blocks[Len(extra.Blocks)] = db
           /\ db.Data = <<>>
    /\ (r = Cat(LE(Num(8)), LE(EnvironmentVariable)) /\ off = Length(r)
        /\ pc \in {"size", "return"}) =>
           /\ Len(extra.Blocks) = 1
           /\ extra.Blocks[1].Data = <<>>
           /\ extra.Blocks[1].Type = "EnvironmentVariableDataBlock"
           /\ pc = "return" => err = "golnk.readDataBlock: read size - EOF"

\* the block of 08 00 00 00 01 00 00 A0 is appended at the end of the stream
C12_Witness ==
    /\ r = Cat(LE(Num(8)), LE(EnvironmentVariable))
    /\ pc = "size"
    /\ off = Length(r)
    /\ Len(extra.Blocks) = 1
    /\ extra.Blocks[1].Data = <<>>

----------------------------------------------------------------------------
(* C13 *)

\* DataBlock is one synchronous call: while it has not returned it takes
\* its next step.  This is weak fairness of Next, written out: a step of
\* Next is possible exactly while pc # "return", so a behaviour is fair when
\* it has returned or takes steps of Next again and again.
FairSpec == Spec /\ ([]<>(pc = "return") \/ []<><<Next>>_vars)

\* C13: on every stream DataBlock eventually returns.  Until it does, the
\* size read and the signature read each move the cursor on by 4 bytes and
\* the payload read never moves it back, so an iteration that does not
\* return consumes at least 8 bytes, and the cursor stays within the stream.
C13_Terminates ==
    /\ <>(pc = "return")
    /\ [][/\ pc = "size" => (pc' = "return" \/ off' = Plus(off, Num(4)))
          /\ pc = "signature" => (pc' = "return" \/ off' = Plus(off, Num(4)))
          /\ pc = "data" => (pc' = "return" \/ (pc' = "size" /\ LessEq(off, off')))
          /\ LessEq(off', Length(r))]_vars

\* a return after three iterations of the loop
C13_Witness ==
    /\ pc = "return"
    /\ Len(extra.Blocks) = 2
    /\ err = Nil

----------------------------------------------------------------------------
(* C14 *)

\* C14: no step of DataBlock changes a block already appended: the blocks
\* before a step are the first blocks after it, field by field, and a step
\* adds at most one block, at the end.
C14_AppendedBlocksUnchanged ==
    [][/\ Len(extra'.Blocks) \in {Len(extra.Blocks), Len(extra.Blocks) + 1}
       /\ \A i \in 1..Len(extra.Blocks) : extra'.Blocks[i] = extra.Blocks[i]]_vars

\* two different blocks stored and a third cut short
C14_Witness ==
    /\ pc = "return"
    /\ err \in ReadErrors("data")
    /\ Len(extra.Blocks) = 2
    /\ extra.Blocks[1].Signature # extra.Blocks[2].Signature
    /\ extra.Blocks[1].Data # extra.Blocks[2].Data
    /\ db.Signature # extra.Blocks[2].Signature

----------------------------------------------------------------------------
(* C15 *)

\* C15: when several calls of DataBlock run over streams of their own, then
\* however their steps interleave, a call that has returned holds the
\* section and the error that it returns when it runs alone on its stream,
\* a call that has not is still bound for them, and two calls that have
\* returned on equal streams hold equal results.
C15_CallsIndependent ==
    /\ \A c \in Calls :
           /\ c.pc = "return" =>
                  /\ c.extra = Alone(c.r).extra
                  /\ c.err = Alone(c.r).err
           /\ Return(c).extra = Alone(c.r).extra
           /\ Return(c).err = Alone(c.r).err
    /\ \A c, d \in Calls :
           (c.pc = "return" /\ d.pc = "return" /\ c.r = d.r) =>
               (c.extra = d.extra /\ c.err = d.err)

\* a call has returned two blocks while another, on a different stream, is
\* parked between its signature and its payload
C15_Witness ==
    /\ pc = "return"
    /\ Len(extra.Blocks) = 2
    /\ \E i \in DOMAIN parked :
           /\ parked[i].pc = "data"
           /\ parked[i].r # r
           /\ parked[i].db.Size # db.Size

====
